---- MODULE Spec2Model ----
(***************************************************************************)
(* LruCacheBase (src/common/lru_cache.h): a cache of obtainer-produced     *)
(* values, indexed by key (keysToTimeAndValue_) and by insertion time      *)
(* (timeToKeys_), guarded by one mutex that get() releases around the      *)
(* valueObtainer_ call.  Callers are threads; every statement group of a   *)
(* critical section is one step, so states inside a critical section       *)
(* (mutex_ held) are visible to the checks.                                *)
(***************************************************************************)
EXTENDS Integers, FiniteSets

\* ----------------------------------------------------------------- bounds
NumKeys == 2
MaxTs == 2
MaxAge == 1
MaxElements == 2
MaxOps == 1

\* ------------------------------------------------------ program constants
\* uint64_t few = 3;
few == 3

\* two threads share the cache
Callers == {1, 2}
KeySet == 1..NumKeys
TimePoints == 0..MaxTs

\* mutex_ owned by nobody
NoCaller == 0
\* keysToTimeAndValue_.end()
End == 0

\* The Value that valueObtainer_(keys...) returns inside get(ts, k): a token
\* naming the key it was obtained for and the call that obtained it.
Obtained(k, ts) == [key |-> k, at |-> ts]
\* A Value local that was never assigned.
NoValue == [key |-> 0, at |-> 0]
\* A Value whose contents std::move(value) took.
MovedFrom == [key |-> 0, at |-> -1]
\* get() left by an exception instead of a return value.
Thrown == [key |-> 0, at |-> -2]

VARIABLES
    maxTime_,             \* SteadyDuration maxTime_
    maxElements_,         \* uint64_t maxElements_
    mutex_,               \* the caller owning mutex_, or NoCaller
    keysToTimeAndValue_,  \* key -> [ts, value]
    timeToKeys_,          \* set of <<ts, key>>, the key standing for the
                          \* pointer to that key inside keysToTimeAndValue_
    aborted,              \* an sassert failed
    pc,                   \* each caller's position
    op,                   \* the public method the caller is in
    currentTs,            \* argument currentTs
    keys,                 \* argument keys...
    maxOperations,        \* argument maxOperations of cleanupWithoutLocking
    i,                    \* loop counter of cleanupWithoutLocking
    iterator,             \* local iterator: End or the key found
    value,                \* local value of get
    result,               \* what the call returned
    raced,                \* history: another get filled the cache for
                          \* keys[p] after caller p released the lock
    replacing             \* history: the get of caller p removed the
                          \* outdated entry of keys[p], and no other
                          \* caller has changed the cache since

config == <<maxTime_, maxElements_>>
indexes == <<keysToTimeAndValue_, timeToKeys_>>
args == <<op, currentTs, keys>>
vars == <<config, mutex_, indexes, aborted, pc, args, maxOperations, i,
          iterator, value, result, raced, replacing>>

\* ---------------------------------------------------------- container ops
\* keysToTimeAndValue_.find(keyTuple)
Find(m, k) == IF k \in DOMAIN m THEN k ELSE End

\* keysToTimeAndValue_.insert(std::make_pair(keyTuple, tsAndValue)): no
\* overwrite of an existing key
MapInsert(m, k, ts, v) ==
    [x \in DOMAIN m \cup {k} |->
        IF x \in DOMAIN m THEN m[x] ELSE [ts |-> ts, value |-> v]]

\* (mutant) the entry stays in keysToTimeAndValue_
MapEraseDropped(m, k) == m

\* keysToTimeAndValue_.erase(keyTuple)
MapErase(m, k) == [x \in DOMAIN m \ {k} |-> m[x]]

\* (mutant) the pair never reaches timeToKeys_
SetInsertDropped(s, ts, k) == s

\* timeToKeys_.insert(std::make_pair(currentTs, keysTuplePointer))
SetInsert(s, ts, k) == s \cup {<<ts, k>>}

\* (mutant) the pair stays in timeToKeys_
SetEraseDropped(s, ts, k) == s

\* timeToKeys_.erase(tsAndKeys)
SetErase(s, ts, k) == s \ {<<ts, k>>}

\* number of elements timeToKeys_.erase(tsAndKeys) removed
SetEraseCount(s, ts, k) == IF <<ts, k>> \in s THEN 1 ELSE 0

\* (mutant) the pair with the greatest timestamp is taken for the oldest
NewestEntries(s) == {e \in s : \A f \in s : e[1] >= f[1]}

\* timeToKeys_.begin(): a pair with the least timestamp; among equal
\* timestamps the order is that of the key pointers, i.e. of addresses
OldestEntries(s) == {e \in s : \A f \in s : e[1] <= f[1]}

\* (mutant) an entry exactly maxTime_ old counts as outdated
IsFreshStrict(ts, now) == ts + maxTime_ > now

\* ts + maxTime_ >= currentTs
IsFresh(ts, now) == ts + maxTime_ >= now

\* (mutant) an entry is outdated one time unit too late
IsOutdatedLate(ts, now) == ts + maxTime_ + 1 < now

\* ts + maxTime_ < currentTs
IsOutdated(ts, now) == ts + maxTime_ < now

\* (mutant) one entry too many is tolerated
ExceedsCapacityByTwo(s) == Cardinality(s) > maxElements_ + 1

\* timeToKeys_.size() > maxElements_
ExceedsCapacity(s) == Cardinality(s) > maxElements_

\* (mutant) the loop runs once more than its budget
LoopContinuesOnceMore(n, limit) == n <= limit

\* i < maxOperations
LoopContinues(n, limit) == n < limit

\* auto tsAndValue = std::make_pair(currentTs, std::move(value)): what the
\* local 'value' can hold afterwards. A Value with a trivial move keeps its
\* contents, any other (std::string, std::vector, std::shared_ptr) is left
\* valid but unspecified, in practice empty.
AfterMove(v) == {v, MovedFrom}

Init ==
    /\ maxTime_ = MaxAge
    /\ maxElements_ \in 0..MaxElements
    /\ mutex_ = NoCaller
    /\ keysToTimeAndValue_ = [x \in {} |-> NoValue]
    /\ timeToKeys_ = {}
    /\ aborted = FALSE
    /\ pc = [p \in Callers |-> "idle"]
    /\ op = [p \in Callers |-> "none"]
    /\ currentTs = [p \in Callers |-> 0]
    /\ keys = [p \in Callers |-> End]
    /\ maxOperations = [p \in Callers |-> 0]
    /\ i = [p \in Callers |-> 0]
    /\ iterator = [p \in Callers |-> End]
    /\ value = [p \in Callers |-> NoValue]
    /\ result = [p \in Callers |-> NoValue]
    /\ raced = [p \in Callers |-> FALSE]
    /\ replacing = [p \in Callers |-> FALSE]

\* Caller p is at statement l and runs: a failed sassert has ended the
\* process, and a finished call hands its result to its caller (Return)
\* before any thread runs on.
At(p, l) ==
    /\ pc[p] = l
    /\ ~aborted
    /\ \A q \in Callers : pc[q] # "done"

\* replacing, once caller p has changed keysToTimeAndValue_ or timeToKeys_
\* while the obtainer of another caller runs
Disturbs(p) ==
    [q \in Callers |-> replacing[q] /\ (q = p \/ pc[q] # "obtain")]

\* ------------------------------------------------------------------ get
\* Value get(SteadyTimePoint currentTs, Keys... keys): the lock is taken and
\* the key looked up
GetBegin(p, ts, k) ==
    /\ At(p, "idle")
    /\ mutex_ = NoCaller
    /\ mutex_' = p
    /\ pc' = [pc EXCEPT ![p] = "found"]
    /\ op' = [op EXCEPT ![p] = "get"]
    /\ currentTs' = [currentTs EXCEPT ![p] = ts]
    /\ keys' = [keys EXCEPT ![p] = k]
    /\ iterator' = [iterator EXCEPT ![p] = Find(keysToTimeAndValue_, k)]
    /\ UNCHANGED <<config, indexes, aborted, maxOperations, i, value, result,
                   raced,
                   replacing>>

\* (mutant) a hit moves the entry to the caller's timestamp
GetHitRefreshes(p) ==
    /\ At(p, "found")
    /\ iterator[p] # End
    /\ IsFresh(keysToTimeAndValue_[keys[p]].ts, currentTs[p])
    /\ result' = [result EXCEPT ![p] = keysToTimeAndValue_[keys[p]].value]
    /\ keysToTimeAndValue_' =
           [keysToTimeAndValue_ EXCEPT ![keys[p]].ts = currentTs[p]]
    /\ timeToKeys_' =
           SetInsert(SetErase(timeToKeys_, keysToTimeAndValue_[keys[p]].ts,
                              keys[p]), currentTs[p], keys[p])
    /\ mutex_' = NoCaller
    /\ pc' = [pc EXCEPT ![p] = "done"]
    /\ replacing' = Disturbs(p)
    /\ UNCHANGED <<config, aborted, args, maxOperations, i, iterator, value,
                   raced>>

\* if (ts + maxTime_ >= currentTs) return value;
GetHit(p) ==
    /\ At(p, "found")
    /\ iterator[p] # End
    /\ IsFresh(keysToTimeAndValue_[keys[p]].ts, currentTs[p])
    /\ result' = [result EXCEPT ![p] = keysToTimeAndValue_[keys[p]].value]
    /\ mutex_' = NoCaller
    /\ pc' = [pc EXCEPT ![p] = "done"]
    /\ UNCHANGED <<config, indexes, aborted, args, maxOperations, i, iterator,
                   value, raced,
                   replacing>>

\* (mutant) the pair of the outdated entry stays in timeToKeys_
GetEraseStaleTimeKept(p) ==
    /\ At(p, "found")
    /\ iterator[p] # End
    /\ ~IsFresh(keysToTimeAndValue_[keys[p]].ts, currentTs[p])
    /\ pc' = [pc EXCEPT ![p] = "erase_stale"]
    /\ replacing' = [Disturbs(p) EXCEPT ![p] = TRUE]
    /\ UNCHANGED <<config, mutex_, indexes, aborted, args, maxOperations, i,
                   iterator, value, result, raced>>

\* else: sassert(timeToKeys_.erase(tsAndKeys) == 1);
GetEraseStaleTime(p) ==
    /\ At(p, "found")
    /\ iterator[p] # End
    /\ ~IsFresh(keysToTimeAndValue_[keys[p]].ts, currentTs[p])
    /\ LET ts == keysToTimeAndValue_[keys[p]].ts IN
        /\ timeToKeys_' = SetErase(timeToKeys_, ts, keys[p])
        /\ aborted' = (SetEraseCount(timeToKeys_, ts, keys[p]) # 1)
    /\ pc' = [pc EXCEPT ![p] = "erase_stale"]
    /\ replacing' = [Disturbs(p) EXCEPT ![p] = TRUE]
    /\ UNCHANGED <<config, mutex_, keysToTimeAndValue_, args, maxOperations, i,
                   iterator, value, result, raced>>

\* (mutant) the outdated entry is kept and given the caller's timestamp
GetStaleKeptInPlace(p) ==
    /\ At(p, "erase_stale")
    /\ keysToTimeAndValue_' =
           [keysToTimeAndValue_ EXCEPT ![keys[p]].ts = currentTs[p]]
    /\ iterator' = [iterator EXCEPT ![p] = End]
    /\ pc' = [pc EXCEPT ![p] = "unlock"]
    /\ replacing' = Disturbs(p)
    /\ UNCHANGED <<config, mutex_, timeToKeys_, aborted, args, maxOperations, i,
                   value, result, raced>>

\* keysToTimeAndValue_.erase(keyTuple); the erased element's iterator is
\* invalid from here on, and is assigned anew before it is read again
GetEraseStaleKey(p) ==
    /\ At(p, "erase_stale")
    /\ keysToTimeAndValue_' = MapErase(keysToTimeAndValue_, keys[p])
    /\ iterator' = [iterator EXCEPT ![p] = End]
    /\ pc' = [pc EXCEPT ![p] = "unlock"]
    /\ replacing' = Disturbs(p)
    /\ UNCHANGED <<config, mutex_, timeToKeys_, aborted, args, maxOperations, i,
                   value, result, raced>>

\* iterator == keysToTimeAndValue_.end(): nothing to remove
GetMiss(p) ==
    /\ At(p, "found")
    /\ iterator[p] = End
    /\ pc' = [pc EXCEPT ![p] = "unlock"]
    /\ UNCHANGED <<config, mutex_, indexes, aborted, args, maxOperations, i,
                   iterator, value, result, raced,
                   replacing>>

\* (mutant) the obtainer is called with the lock held
GetUnlockKeepsLock(p) ==
    /\ At(p, "unlock")
    /\ pc' = [pc EXCEPT ![p] = "obtain"]
    /\ raced' = [raced EXCEPT ![p] = FALSE]
    /\ UNCHANGED <<config, mutex_, indexes, aborted, args, maxOperations, i,
                   iterator, value, result, replacing>>

\* lock.unlock();
GetUnlock(p) ==
    /\ At(p, "unlock")
    /\ mutex_' = NoCaller
    /\ pc' = [pc EXCEPT ![p] = "obtain"]
    /\ raced' = [raced EXCEPT ![p] = FALSE]
    /\ UNCHANGED <<config, indexes, aborted, args, maxOperations, i, iterator,
                   value, result, replacing>>

\* auto value = valueObtainer_(keys...); lock.lock();
\* iterator = keysToTimeAndValue_.find(keyTuple);
GetObtain(p) ==
    /\ At(p, "obtain")
    /\ mutex_ = NoCaller
    /\ mutex_' = p
    /\ value' = [value EXCEPT ![p] = Obtained(keys[p], currentTs[p])]
    /\ iterator' = [iterator EXCEPT ![p] = Find(keysToTimeAndValue_, keys[p])]
    /\ pc' = [pc EXCEPT ![p] = "recheck"]
    /\ UNCHANGED <<config, indexes, aborted, args, maxOperations, i, result,
                   raced,
                   replacing>>

\* (mutant) the failure of the obtainer is stored as the value of the key
GetObtainThrowsCached(p) ==
    /\ At(p, "obtain")
    /\ result' = [result EXCEPT ![p] = Thrown]
    /\ keysToTimeAndValue_' =
           MapInsert(keysToTimeAndValue_, keys[p], currentTs[p], Thrown)
    /\ timeToKeys_' = SetInsert(timeToKeys_, currentTs[p], keys[p])
    /\ pc' = [pc EXCEPT ![p] = "done"]
    /\ UNCHANGED <<config, mutex_, aborted, args, maxOperations, i, iterator,
                   value, raced, replacing>>

\* valueObtainer_ throws: the unique_lock does not own the mutex, get is left
GetObtainThrows(p) ==
    /\ At(p, "obtain")
    /\ result' = [result EXCEPT ![p] = Thrown]
    /\ pc' = [pc EXCEPT ![p] = "done"]
    /\ UNCHANGED <<config, mutex_, indexes, aborted, args, maxOperations, i,
                   iterator, value, raced,
                   replacing>>

\* (mutant) the caller that lost the race overwrites the winner's entry
GetRaceLostOverwrites(p) ==
    /\ At(p, "recheck")
    /\ iterator[p] # End
    /\ result' = [result EXCEPT ![p] = value[p]]
    /\ keysToTimeAndValue_' =
           [keysToTimeAndValue_ EXCEPT
               ![keys[p]] = [ts |-> currentTs[p], value |-> value[p]]]
    /\ timeToKeys_' =
           SetInsert(SetErase(timeToKeys_, keysToTimeAndValue_[keys[p]].ts,
                              keys[p]), currentTs[p], keys[p])
    /\ mutex_' = NoCaller
    /\ pc' = [pc EXCEPT ![p] = "done"]
    /\ replacing' = Disturbs(p)
    /\ UNCHANGED <<config, aborted, args, maxOperations, i, iterator, value,
                   raced>>

\* if (iterator != keysToTimeAndValue_.end()) return value;
GetRaceLost(p) ==
    /\ At(p, "recheck")
    /\ iterator[p] # End
    /\ result' = [result EXCEPT ![p] = value[p]]
    /\ mutex_' = NoCaller
    /\ pc' = [pc EXCEPT ![p] = "done"]
    /\ UNCHANGED <<config, indexes, aborted, args, maxOperations, i, iterator,
                   value, raced,
                   replacing>>

\* auto tsAndValue = std::make_pair(currentTs, std::move(value));
\* keysToTimeAndValue_.insert(std::make_pair(keyTuple, std::move(tsAndValue)));
GetInsertKey(p) ==
    /\ At(p, "recheck")
    /\ iterator[p] = End
    /\ keysToTimeAndValue_' =
           MapInsert(keysToTimeAndValue_, keys[p], currentTs[p], value[p])
    /\ \E left \in AfterMove(value[p]) : value' = [value EXCEPT ![p] = left]
    /\ pc' = [pc EXCEPT ![p] = "insert_time"]
    /\ replacing' = Disturbs(p)
    /\ UNCHANGED <<config, mutex_, timeToKeys_, aborted, args, maxOperations, i,
                   iterator, result, raced>>

\* the insert into keysToTimeAndValue_ throws (std::bad_alloc): the value was
\* moved into tsAndValue before
GetInsertKeyThrows(p) ==
    /\ At(p, "recheck")
    /\ iterator[p] = End
    /\ \E left \in AfterMove(value[p]) : value' = [value EXCEPT ![p] = left]
    /\ pc' = [pc EXCEPT ![p] = "catch"]
    /\ UNCHANGED <<config, mutex_, indexes, aborted, args, maxOperations, i,
                   iterator, result, raced,
                   replacing>>

\* raced, once caller p has filled the cache for keys[p]
Filled(p) ==
    [q \in Callers |->
        raced[q] \/ (q # p /\ pc[q] = "obtain" /\ keys[q] = keys[p])]

\* (mutant) no eviction pass follows the insertion
GetInsertTimeNoPass(p) ==
    /\ At(p, "insert_time")
    /\ timeToKeys_' = SetInsert(timeToKeys_, currentTs[p], keys[p])
    /\ maxOperations' = [maxOperations EXCEPT ![p] = 0]
    /\ i' = [i EXCEPT ![p] = 0]
    /\ raced' = Filled(p)
    /\ pc' = [pc EXCEPT ![p] = "cleanup"]
    /\ replacing' = Disturbs(p)
    /\ UNCHANGED <<config, mutex_, keysToTimeAndValue_, aborted, args, iterator,
                   value, result>>

\* timeToKeys_.insert(tsAndKeys); uint64_t few = 3;
GetInsertTime(p) ==
    /\ At(p, "insert_time")
    /\ timeToKeys_' = SetInsert(timeToKeys_, currentTs[p], keys[p])
    /\ maxOperations' = [maxOperations EXCEPT ![p] = few]
    /\ i' = [i EXCEPT ![p] = 0]
    /\ raced' = Filled(p)
    /\ pc' = [pc EXCEPT ![p] = "cleanup"]
    /\ replacing' = Disturbs(p)
    /\ UNCHANGED <<config, mutex_, keysToTimeAndValue_, aborted, args, iterator,
                   value, result>>

\* timeToKeys_.insert throws (std::bad_alloc)
GetInsertTimeThrows(p) ==
    /\ At(p, "insert_time")
    /\ pc' = [pc EXCEPT ![p] = "catch"]
    /\ UNCHANGED <<config, mutex_, indexes, aborted, args, maxOperations, i,
                   iterator, value, result, raced,
                   replacing>>

\* (mutant) the exception is passed on without the rollback
GetCatchKeepsEntry(p) ==
    /\ At(p, "catch")
    /\ result' = [result EXCEPT ![p] = Thrown]
    /\ mutex_' = NoCaller
    /\ pc' = [pc EXCEPT ![p] = "done"]
    /\ replacing' = Disturbs(p)
    /\ UNCHANGED <<config, indexes, aborted, args, maxOperations, i, iterator,
                   value, raced>>

\* (mutant) the exception leaves get with the mutex still locked
GetCatchKeepsLock(p) ==
    /\ At(p, "catch")
    /\ keysToTimeAndValue_' = MapErase(keysToTimeAndValue_, keys[p])
    /\ result' = [result EXCEPT ![p] = Thrown]
    /\ pc' = [pc EXCEPT ![p] = "done"]
    /\ replacing' = Disturbs(p)
    /\ UNCHANGED <<config, mutex_, timeToKeys_, aborted, args, maxOperations,
                   i, iterator, value, raced>>

\* catch (...) { keysToTimeAndValue_.erase(keyTuple); throw; }
GetCatch(p) ==
    /\ At(p, "catch")
    /\ keysToTimeAndValue_' = MapErase(keysToTimeAndValue_, keys[p])
    /\ result' = [result EXCEPT ![p] = Thrown]
    /\ mutex_' = NoCaller
    /\ pc' = [pc EXCEPT ![p] = "done"]
    /\ replacing' = Disturbs(p)
    /\ UNCHANGED <<config, timeToKeys_, aborted, args, maxOperations, i,
                   iterator, value, raced>>

\* return value; (after cleanupWithoutLocking(currentTs, few))
GetReturn(p) ==
    /\ At(p, "return")
    /\ result' = [result EXCEPT ![p] = value[p]]
    /\ mutex_' = NoCaller
    /\ pc' = [pc EXCEPT ![p] = "done"]
    /\ UNCHANGED <<config, indexes, aborted, args, maxOperations, i, iterator,
                   value, raced,
                   replacing>>

\* -------------------------------------------------- cleanupWithoutLocking
\* one pass of the loop body that evicts timeToKeys_.begin()
CleanupEvict(p) ==
    /\ At(p, "cleanup")
    /\ LoopContinues(i[p], maxOperations[p])
    /\ \E oldestEntry \in OldestEntries(timeToKeys_) :
        /\ IsOutdated(oldestEntry[1], currentTs[p]) \/ ExceedsCapacity(timeToKeys_)
        /\ timeToKeys_' = timeToKeys_ \ {oldestEntry}
        /\ keysToTimeAndValue_' = MapErase(keysToTimeAndValue_, oldestEntry[2])
        /\ aborted' = (oldestEntry[2] \notin DOMAIN keysToTimeAndValue_)
    /\ i' = [i EXCEPT ![p] = i[p] + 1]
    /\ replacing' = Disturbs(p)
    /\ UNCHANGED <<config, mutex_, pc, args, maxOperations, iterator, value,
                   result, raced>>

\* the loop ends: the budget is used up, timeToKeys_ is empty, or its oldest
\* entry is neither outdated nor over the capacity
CleanupExit(p) ==
    /\ At(p, "cleanup")
    /\ \/ ~LoopContinues(i[p], maxOperations[p])
       \/ timeToKeys_ = {}
       \/ \E oldestEntry \in OldestEntries(timeToKeys_) :
            ~(IsOutdated(oldestEntry[1], currentTs[p]) \/ ExceedsCapacity(timeToKeys_))
    /\ pc' = [pc EXCEPT ![p] = IF op[p] = "get" THEN "return" ELSE "done"]
    /\ mutex_' = IF op[p] = "get" THEN mutex_ ELSE NoCaller
    /\ UNCHANGED <<config, indexes, aborted, args, maxOperations, i, iterator,
                   value, result, raced,
                   replacing>>

\* void cleanup(SteadyTimePoint currentTs, uint64_t maxOperations)
CleanupBegin(p, ts, n) ==
    /\ At(p, "idle")
    /\ mutex_ = NoCaller
    /\ mutex_' = p
    /\ op' = [op EXCEPT ![p] = "cleanup"]
    /\ currentTs' = [currentTs EXCEPT ![p] = ts]
    /\ maxOperations' = [maxOperations EXCEPT ![p] = n]
    /\ i' = [i EXCEPT ![p] = 0]
    /\ pc' = [pc EXCEPT ![p] = "cleanup"]
    /\ UNCHANGED <<config, indexes, aborted, keys, iterator, value, result,
                   raced,
                   replacing>>

\* ---------------------------------------------------------------- erase
\* void erase(Keys... keys): the lock is taken and the key looked up
EraseBegin(p, k) ==
    /\ At(p, "idle")
    /\ mutex_ = NoCaller
    /\ mutex_' = p
    /\ op' = [op EXCEPT ![p] = "erase"]
    /\ keys' = [keys EXCEPT ![p] = k]
    /\ iterator' = [iterator EXCEPT ![p] = Find(keysToTimeAndValue_, k)]
    /\ pc' = [pc EXCEPT ![p] = "erase"]
    /\ UNCHANGED <<config, indexes, aborted, currentTs, maxOperations, i, value,
                   result, raced,
                   replacing>>

\* if (iterator != end) { sassert(timeToKeys_.erase(tsAndKeys) == 1);
\*                        keysToTimeAndValue_.erase(iterator); }
EraseFound(p) ==
    /\ At(p, "erase")
    /\ iterator[p] # End
    /\ LET ts == keysToTimeAndValue_[keys[p]].ts IN
        /\ timeToKeys_' = SetErase(timeToKeys_, ts, keys[p])
        /\ aborted' = (SetEraseCount(timeToKeys_, ts, keys[p]) # 1)
    /\ keysToTimeAndValue_' = MapErase(keysToTimeAndValue_, keys[p])
    /\ mutex_' = NoCaller
    /\ pc' = [pc EXCEPT ![p] = "done"]
    /\ replacing' = Disturbs(p)
    /\ UNCHANGED <<config, args, maxOperations, i, iterator, value, result,
                   raced>>

\* Otherwise silently return.
EraseAbsent(p) ==
    /\ At(p, "erase")
    /\ iterator[p] = End
    /\ mutex_' = NoCaller
    /\ pc' = [pc EXCEPT ![p] = "done"]
    /\ UNCHANGED <<config, indexes, aborted, args, maxOperations, i, iterator,
                   value, result, raced,
                   replacing>>

\* ---------------------------------------------------------------- callers
\* the call is over: the caller's locals go out of scope
Return(p) ==
    /\ ~aborted
    /\ pc[p] = "done"
    /\ pc' = [pc EXCEPT ![p] = "idle"]
    /\ op' = [op EXCEPT ![p] = "none"]
    /\ currentTs' = [currentTs EXCEPT ![p] = 0]
    /\ keys' = [keys EXCEPT ![p] = End]
    /\ maxOperations' = [maxOperations EXCEPT ![p] = 0]
    /\ i' = [i EXCEPT ![p] = 0]
    /\ iterator' = [iterator EXCEPT ![p] = End]
    /\ value' = [value EXCEPT ![p] = NoValue]
    /\ result' = [result EXCEPT ![p] = NoValue]
    /\ raced' = [raced EXCEPT ![p] = FALSE]
    /\ replacing' = [replacing EXCEPT ![p] = FALSE]
    /\ UNCHANGED <<config, mutex_, indexes, aborted>>

Next ==
    \/ \E p \in Callers, ts \in TimePoints, k \in KeySet : GetBegin(p, ts, k)
    \/ \E p \in Callers : GetHit(p)
    \/ \E p \in Callers : GetEraseStaleTime(p)
    \/ \E p \in Callers : GetEraseStaleKey(p)
    \/ \E p \in Callers : GetMiss(p)
    \/ \E p \in Callers : GetUnlock(p)
    \/ \E p \in Callers : GetObtain(p)
    \/ \E p \in Callers : GetObtainThrows(p)
    \/ \E p \in Callers : GetRaceLost(p)
    \/ \E p \in Callers : GetInsertKey(p)
    \/ \E p \in Callers : GetInsertKeyThrows(p)
    \/ \E p \in Callers : GetInsertTime(p)
    \/ \E p \in Callers : GetInsertTimeThrows(p)
    \/ \E p \in Callers : GetCatch(p)
    \/ \E p \in Callers : GetReturn(p)
    \/ \E p \in Callers : CleanupEvict(p)
    \/ \E p \in Callers : CleanupExit(p)
    \/ \E p \in Callers, ts \in TimePoints, n \in 0..MaxOps :
           CleanupBegin(p, ts, n)
    \/ \E p \in Callers, k \in KeySet : EraseBegin(p, k)
    \/ \E p \in Callers : EraseFound(p)
    \/ \E p \in Callers : EraseAbsent(p)
    \/ \E p \in Callers : Return(p)

Spec == Init /\ [][Next]_vars

\* the steps caller p takes by itself once it is inside a method: everything
\* but the calls (which its caller may never make), the obtainer and the
\* lock.lock() after it
Running(p) ==
    \/ GetHit(p) \/ GetEraseStaleTime(p) \/ GetEraseStaleKey(p) \/ GetMiss(p)
    \/ GetUnlock(p) \/ GetRaceLost(p)
    \/ GetInsertKey(p) \/ GetInsertKeyThrows(p)
    \/ GetInsertTime(p) \/ GetInsertTimeThrows(p)
    \/ GetCatch(p) \/ GetReturn(p)
    \/ CleanupEvict(p) \/ CleanupExit(p)
    \/ EraseFound(p) \/ EraseAbsent(p)
    \/ Return(p)

\* Fair scheduling: a thread that can run does run (weak fairness), the
\* obtainer returns, and a thread waiting in lock.lock() while the mutex is
\* free again and again gets it at last (strong fairness).
FairSpec ==
    /\ Spec
    /\ \A p \in Callers : WF_vars(Running(p)) /\ SF_vars(GetObtain(p))

\* ------------------------------------------------------------ properties
\* caller p takes a step of its method
Moves(p) == pc'[p] # pc[p] \/ i'[p] # i[p]

\* the keys that leave keysToTimeAndValue_ in a step
Removed == DOMAIN keysToTimeAndValue_ \ DOMAIN keysToTimeAndValue_'

\* every entry that is kept by a step is kept as it was, none is added
OnlyRemoves ==
    /\ DOMAIN keysToTimeAndValue_' \subseteq DOMAIN keysToTimeAndValue_
    /\ \A k \in DOMAIN keysToTimeAndValue_' :
           keysToTimeAndValue_'[k] = keysToTimeAndValue_[k]
    /\ timeToKeys_' \subseteq timeToKeys_

\* keysToTimeAndValue_ less the entry of key k, the others as they are
MapWithout(k) ==
    [x \in DOMAIN keysToTimeAndValue_ \ {k} |-> keysToTimeAndValue_[x]]

\* timeToKeys_ less the pairs of key k
TimesWithout(k) == {e \in timeToKeys_ : e[2] # k}

\* key k has the least timestamp of all cached entries
IsOldest(k) ==
    \A j \in DOMAIN keysToTimeAndValue_ :
        keysToTimeAndValue_[k].ts <= keysToTimeAndValue_[j].ts

\* no cached entry is outdated at time now
NoneOutdated(now) ==
    \A j \in DOMAIN keysToTimeAndValue_ :
        ~(keysToTimeAndValue_[j].ts + maxTime_ < now)

\* the two indexes hold the same (timestamp, key) pairs, each key once
IndexesCorrespond ==
    /\ \A k \in DOMAIN keysToTimeAndValue_ :
           <<keysToTimeAndValue_[k].ts, k>> \in timeToKeys_
    /\ \A e \in timeToKeys_ :
           /\ e[2] \in DOMAIN keysToTimeAndValue_
           /\ keysToTimeAndValue_[e[2]].ts = e[1]
    /\ Cardinality(timeToKeys_) = Cardinality(DOMAIN keysToTimeAndValue_)

\* a get that misses goes on to the obtainer: from the failed lookup (or the
\* removal of the outdated entry) the only way on is unlock, then obtain
MissLeadsToObtainer(p) ==
    /\ (pc[p] = "found" /\ iterator[p] = End /\ Moves(p)) => pc'[p] = "unlock"
    /\ (pc[p] = "erase_stale" /\ Moves(p)) => pc'[p] = "unlock"
    /\ (pc[p] = "unlock" /\ Moves(p)) => pc'[p] = "obtain"

\* a lookup under the lock finds the key iff it is cached
LookupFinds(p) ==
    (pc[p] = "idle" /\ pc'[p] = "found") =>
        (iterator'[p] = End <=> keys'[p] \notin DOMAIN keysToTimeAndValue_)

\* the get of caller p is over because its obtainer failed
ObtainerFailed(p) ==
    /\ pc[p] = "done" /\ op[p] = "get"
    /\ result[p] = Thrown /\ value[p] = NoValue

\* the get of caller p is over because one of its two insertions failed
InsertFailed(p) ==
    /\ pc[p] = "done" /\ op[p] = "get"
    /\ result[p] = Thrown /\ value[p] # NoValue

\* C1: whenever no caller holds the lock, keysToTimeAndValue_ and timeToKeys_
\* are in 1:1 correspondence: key K is cached with timestamp T iff (T, K) is in
\* timeToKeys_, and no key is in either index twice.
C1_IndexConsistency == mutex_ = NoCaller => IndexesCorrespond

\* C1 witness: a get has inserted its entry and returned, the lock is free.
C1_Witness ==
    \E p \in Callers :
        /\ pc[p] = "done" /\ op[p] = "get" /\ mutex_ = NoCaller
        /\ iterator[p] = End /\ keys[p] \in DOMAIN keysToTimeAndValue_
        /\ <<currentTs[p], keys[p]>> \in timeToKeys_

\* C2: a caller inside the obtainer does not hold the lock.
C2_ObtainerOutsideLock == \A p \in Callers : pc[p] = "obtain" => mutex_ # p

\* C2 witness: while caller p's obtainer runs, another caller has taken the
\* lock and filled the cache for the very key p is obtaining.
C2_Witness ==
    \E p \in Callers, q \in Callers :
        /\ pc[p] = "obtain" /\ q # p /\ mutex_ = q
        /\ keys[p] \in DOMAIN keysToTimeAndValue_

\* C3 (as claimed): the caller that reacquires the lock second, after a
\* concurrent miss of the same key, finds the entry of the first.
C3_SecondFindsFirst ==
    \A p \in Callers : (pc[p] = "recheck" /\ raced[p]) => iterator[p] # End

\* C3 (amended): if the caller that reacquires the lock after its obtainer
\* finds an entry for its key, that entry was inserted by another caller's
\* get during the obtainer call, its timestamp and value are those of that
\* one call, the indexes are left as they are and the caller returns the
\* value it obtained itself; if it finds none, it goes on to insert.
C3_RaceLoserLeavesEntry ==
    [][\A p \in Callers :
        /\ (pc[p] = "recheck" /\ iterator[p] # End) =>
             /\ raced[p]
             /\ keys[p] \in DOMAIN keysToTimeAndValue_
             /\ keysToTimeAndValue_[keys[p]].value =
                    Obtained(keys[p], keysToTimeAndValue_[keys[p]].ts)
             /\ UNCHANGED indexes
             /\ Moves(p) =>
                  /\ pc'[p] = "done"
                  /\ result'[p] = Obtained(keys[p], currentTs[p])
        /\ (pc[p] = "recheck" /\ iterator[p] = End /\ Moves(p)) =>
             pc'[p] \in {"insert_time", "catch"}
      ]_vars

\* C3 witness: a get that lost the race has returned its own value and the
\* cache holds the other caller's.
C3_Witness ==
    \E p \in Callers :
        /\ pc[p] = "done" /\ op[p] = "get" /\ raced[p] /\ iterator[p] # End
        /\ result[p] = Obtained(keys[p], currentTs[p])
        /\ keys[p] \in DOMAIN keysToTimeAndValue_
        /\ keysToTimeAndValue_[keys[p]].value # result[p]

\* C4 (as claimed): a get at T' of a key cached with timestamp T returns the
\* cached value without the obtainer if T' < T + maxTime_, and goes on to the
\* obtainer if T' >= T + maxTime_.
C4_FreshBelowMaxAge ==
    [][\A p \in Callers :
        (pc[p] = "found" /\ op[p] = "get" /\ iterator[p] # End /\ Moves(p)) =>
            LET e == keysToTimeAndValue_[keys[p]] IN
              /\ currentTs[p] < e.ts + maxTime_ =>
                   pc'[p] = "done" /\ result'[p] = e.value
              /\ currentTs[p] >= e.ts + maxTime_ => pc'[p] = "erase_stale"
      ]_vars

\* C4 (amended): a get at T' of a key cached with timestamp T returns the
\* cached value without the obtainer if T' <= T + maxTime_, and removes the
\* entry and goes on to the obtainer if T' > T + maxTime_.
C4_FreshUpToMaxAge ==
    [][\A p \in Callers :
        /\ (pc[p] = "found" /\ op[p] = "get" /\ iterator[p] # End /\ Moves(p)) =>
            LET e == keysToTimeAndValue_[keys[p]] IN
              /\ currentTs[p] <= e.ts + maxTime_ =>
                   /\ pc'[p] = "done" /\ result'[p] = e.value
                   /\ value'[p] = NoValue
              /\ currentTs[p] > e.ts + maxTime_ => pc'[p] = "erase_stale"
        /\ MissLeadsToObtainer(p)
      ]_vars

\* C4 witness: a get exactly maxTime_ after the insertion has returned the
\* cached value and has not called the obtainer.
C4_Witness ==
    \E p \in Callers :
        /\ pc[p] = "done" /\ op[p] = "get" /\ value[p] = NoValue
        /\ keys[p] \in DOMAIN keysToTimeAndValue_
        /\ result[p] = keysToTimeAndValue_[keys[p]].value
        /\ currentTs[p] = keysToTimeAndValue_[keys[p]].ts + maxTime_

\* C5: a get that finds its key with timestamp + maxTime_ >= now returns the
\* stored value, calls no obtainer, runs no eviction pass and leaves both
\* indexes as they are, the entry's timestamp included.
C5_HitIsPureRead ==
    [][\A p \in Callers :
        /\ (pc[p] = "idle" /\ pc'[p] = "found") => UNCHANGED indexes
        /\ ( /\ pc[p] = "found" /\ op[p] = "get"
             /\ keys[p] \in DOMAIN keysToTimeAndValue_
             /\ keysToTimeAndValue_[keys[p]].ts + maxTime_ >= currentTs[p] ) =>
             /\ UNCHANGED indexes
             /\ Moves(p) =>
                  /\ pc'[p] = "done"
                  /\ result'[p] = keysToTimeAndValue_[keys[p]].value
                  /\ value'[p] = NoValue
                  /\ i'[p] = i[p] /\ maxOperations'[p] = maxOperations[p]
      ]_vars

\* C5 witness: a get later than the entry's timestamp has hit, and the entry
\* still carries the timestamp of its insertion.
C5_Witness ==
    \E p \in Callers :
        /\ pc[p] = "done" /\ op[p] = "get" /\ value[p] = NoValue
        /\ iterator[p] # End
        /\ result[p] = keysToTimeAndValue_[keys[p]].value
        /\ keysToTimeAndValue_[keys[p]].ts < currentTs[p]
        /\ <<keysToTimeAndValue_[keys[p]].ts, keys[p]>> \in timeToKeys_

\* C6 (as claimed): every get that returns, returns a value the obtainer
\* produced for the key of the call.
C6_ReturnsObtainedValue ==
    \A p \in Callers :
        (pc[p] = "done" /\ op[p] = "get" /\ result[p] # Thrown) =>
            /\ result[p].key = keys[p]
            /\ result[p].at \in TimePoints

\* C7: the number of cached entries never exceeds maxElements_ by more than 1.
C7_AtMostOneOverCapacity ==
    /\ Cardinality(DOMAIN keysToTimeAndValue_) <= maxElements_ + 1
    /\ Cardinality(timeToKeys_) <= maxElements_ + 1

\* C7 witness: a get has inserted into a full cache, before its eviction pass.
C7_Witness ==
    \E p \in Callers :
        /\ pc[p] = "cleanup" /\ op[p] = "get" /\ i[p] = 0
        /\ maxElements_ >= 1
        /\ Cardinality(timeToKeys_) = maxElements_ + 1

\* C8: an eviction pass removes one entry per step, and the one it removes
\* has the least timestamp of all cached entries; after a get has inserted a
\* key with a timestamp above all others into a cache of maxElements_ entries,
\* none outdated, its pass removes exactly one entry with the least timestamp,
\* keeps the others and stops; a later get of a key that is not cached goes
\* on to the obtainer.
C8_EvictsOldest ==
    [][\A p \in Callers :
        /\ pc[p] = "cleanup" =>
             /\ Cardinality(Removed) <= 1
             /\ \A k \in Removed : IsOldest(k)
        /\ ( /\ pc[p] = "cleanup" /\ op[p] = "get" /\ i[p] = 0 /\ Moves(p)
             /\ Cardinality(DOMAIN keysToTimeAndValue_) = maxElements_ + 1
             /\ NoneOutdated(currentTs[p])
             /\ \A j \in DOMAIN keysToTimeAndValue_ \ {keys[p]} :
                    keysToTimeAndValue_[j].ts < currentTs[p] ) =>
             /\ i'[p] = 1
             /\ \E k \in DOMAIN keysToTimeAndValue_ :
                  /\ IsOldest(k)
                  /\ keysToTimeAndValue_' = MapWithout(k)
                  /\ timeToKeys_' = TimesWithout(k)
        /\ ( /\ pc[p] = "cleanup" /\ op[p] = "get" /\ Moves(p)
             /\ Cardinality(DOMAIN keysToTimeAndValue_) <= maxElements_
             /\ NoneOutdated(currentTs[p]) ) =>
             pc'[p] = "return" /\ UNCHANGED indexes
        /\ MissLeadsToObtainer(p)
      ]_vars

\* C8 witness: the pass of a get at a timestamp above all others has evicted
\* one entry of a full cache and kept the others, the new entry among them.
C8_Witness ==
    \E p \in Callers :
        /\ pc[p] = "return" /\ op[p] = "get" /\ i[p] = 1
        /\ maxElements_ >= 1
        /\ Cardinality(DOMAIN keysToTimeAndValue_) = maxElements_
        /\ keys[p] \in DOMAIN keysToTimeAndValue_
        /\ \A j \in DOMAIN keysToTimeAndValue_ \ {keys[p]} :
               keysToTimeAndValue_[j].ts < currentTs[p]
        /\ NoneOutdated(currentTs[p])

\* C9: cleanup(now, maxOperations) removes at most maxOperations entries (one
\* per counted pass of its loop), adds and modifies none; each entry it
\* removes is the oldest and is outdated at now or cached while the entry
\* count exceeds maxElements_; with maxOperations = 0 it changes nothing.
C9_CleanupBounded ==
    [][\A p \in Callers :
        /\ (pc[p] = "idle" /\ pc'[p] = "cleanup") =>
             i'[p] = 0 /\ UNCHANGED indexes
        /\ (pc[p] = "cleanup" /\ op[p] = "cleanup") =>
             /\ i[p] <= maxOperations[p]
             /\ OnlyRemoves
             /\ maxOperations[p] = 0 => UNCHANGED indexes
             /\ \/ UNCHANGED indexes
                \/ /\ i'[p] = i[p] + 1
                   /\ i'[p] <= maxOperations[p]
                   /\ \E k \in DOMAIN keysToTimeAndValue_ :
                        /\ IsOldest(k)
                        /\ \/ keysToTimeAndValue_[k].ts + maxTime_ < currentTs[p]
                           \/ Cardinality(DOMAIN keysToTimeAndValue_) > maxElements_
                        /\ keysToTimeAndValue_' = MapWithout(k)
                        /\ timeToKeys_' = TimesWithout(k)
      ]_vars

\* C9 witness: a cleanup has used its whole budget on removals and returned.
C9_Witness ==
    \E p \in Callers :
        /\ pc[p] = "done" /\ op[p] = "cleanup"
        /\ i[p] >= 1 /\ i[p] = maxOperations[p]

\* C10: erase(K) removes K's entry from both indexes whether or not it is
\* outdated, changes nothing when K is not cached, leaves every other entry
\* as it is and fails no assertion; after it K is in neither index, so that
\* a second erase(K) finds nothing and a get(K) goes on to the obtainer.
C10_EraseRemovesOnlyKey ==
    [][\A p \in Callers :
        /\ (pc[p] = "idle" /\ pc'[p] = "erase") =>
             /\ UNCHANGED indexes
             /\ iterator'[p] = End <=> keys'[p] \notin DOMAIN keysToTimeAndValue_
        /\ (pc[p] = "erase" /\ Moves(p)) =>
             /\ pc'[p] = "done" /\ ~aborted'
             /\ keysToTimeAndValue_' = MapWithout(keys[p])
             /\ timeToKeys_' = TimesWithout(keys[p])
             /\ iterator[p] = End => UNCHANGED indexes
             /\ keys[p] \notin DOMAIN keysToTimeAndValue_'
        /\ (pc[p] = "done" /\ op[p] = "erase") =>
             /\ keys[p] \notin DOMAIN keysToTimeAndValue_
             /\ \A e \in timeToKeys_ : e[2] # keys[p]
        /\ MissLeadsToObtainer(p)
      ]_vars

\* C10 witness: an erase has removed a cached entry and another key's entry
\* is still cached.
C10_Witness ==
    \E p \in Callers :
        /\ pc[p] = "done" /\ op[p] = "erase" /\ iterator[p] # End
        /\ keys[p] \notin DOMAIN keysToTimeAndValue_
        /\ keysToTimeAndValue_ # [x \in {} |-> NoValue]
        /\ IndexesCorrespond

\* C11: when the obtainer of get(now, K) fails, the failure is what the call
\* gives its caller, the step changes neither index and the lock is not held
\* by the caller; from the release of the lock to the end of the failed call
\* K enters an index only by the get of another caller, and a get that does
\* not find its key cached goes on to the obtainer.
C11_ObtainerFailureNotCached ==
    [][\A p \in Callers :
        /\ (pc[p] = "obtain" /\ pc'[p] = "done") =>
             /\ result'[p] = Thrown
             /\ UNCHANGED indexes
             /\ mutex_ # p /\ mutex_' # p
        /\ ObtainerFailed(p) => mutex_ # p
        /\ ( /\ pc[p] \in {"unlock", "obtain"} \/ ObtainerFailed(p)
             /\ \/ keys[p] \in DOMAIN keysToTimeAndValue_'
                \/ TimesWithout(keys[p])' # timeToKeys_' ) =>
             \/ keys[p] \in DOMAIN keysToTimeAndValue_
             \/ TimesWithout(keys[p]) # timeToKeys_
             \/ \E q \in Callers \ {p} :
                    mutex_ = q /\ op[q] = "get" /\ keys[q] = keys[p]
        /\ LookupFinds(p)
        /\ MissLeadsToObtainer(p)
      ]_vars

\* C11 witness: the obtainer of a get has failed, the key is not cached and
\* the lock is free.
C11_Witness ==
    \E p \in Callers :
        /\ ObtainerFailed(p) /\ mutex_ = NoCaller
        /\ keys[p] \notin DOMAIN keysToTimeAndValue_
        /\ keysToTimeAndValue_ # [x \in {} |-> NoValue]

\* C12: when one of the two insertions of get fails, the indexes are taken
\* back to what they were when the caller reacquired the lock: the failed
\* insertion adds nothing, the catch block removes the key from
\* keysToTimeAndValue_ and leaves timeToKeys_, which never received the pair,
\* as it is; the indexes correspond again, the failure goes to the caller
\* and the lock is released.
C12_InsertFailureRolledBack ==
    [][\A p \in Callers :
        /\ (pc[p] = "recheck" /\ iterator[p] = End) =>
             /\ keys[p] \notin DOMAIN keysToTimeAndValue_
             /\ IndexesCorrespond
             /\ pc'[p] = "insert_time" =>
                  /\ keysToTimeAndValue_ =
                         [x \in DOMAIN keysToTimeAndValue_' \ {keys[p]} |->
                             keysToTimeAndValue_'[x]]
                  /\ timeToKeys_' = timeToKeys_
             /\ pc'[p] = "catch" => UNCHANGED indexes
        /\ (pc[p] = "insert_time" /\ pc'[p] = "catch") => UNCHANGED indexes
        /\ pc[p] = "catch" =>
             /\ mutex_ = p
             /\ TimesWithout(keys[p]) = timeToKeys_
             /\ Moves(p) =>
                  /\ pc'[p] = "done" /\ result'[p] = Thrown
                  /\ mutex_' = NoCaller
                  /\ keysToTimeAndValue_' = MapWithout(keys[p])
                  /\ timeToKeys_' = timeToKeys_
        /\ InsertFailed(p) =>
             /\ keys[p] \notin DOMAIN keysToTimeAndValue_
             /\ IndexesCorrespond
      ]_vars

\* C12 witness: an insertion of a get has failed and the call is over; the
\* key is not cached and the entries cached before are.
C12_Witness ==
    \E p \in Callers :
        /\ InsertFailed(p) /\ mutex_ = NoCaller
        /\ keys[p] \notin DOMAIN keysToTimeAndValue_
        /\ keysToTimeAndValue_ # [x \in {} |-> NoValue]
        /\ IndexesCorrespond

\* C13: a get(now, K) that finds K cached with T + maxTime_ < now removes
\* K's pair from timeToKeys_ and K's entry from keysToTimeAndValue_, releases
\* the lock and calls the obtainer, and never comes back to the obtainer
\* after it; if no other caller changes the cache in between, K is cached
\* with timestamp now and the value just obtained when the get returns.
C13_StaleEntryReplaced ==
    [][\A p \in Callers :
        /\ ( /\ pc[p] = "found" /\ op[p] = "get" /\ Moves(p)
             /\ keys[p] \in DOMAIN keysToTimeAndValue_
             /\ keysToTimeAndValue_[keys[p]].ts + maxTime_ < currentTs[p] ) =>
             /\ pc'[p] = "erase_stale"
             /\ timeToKeys_' = TimesWithout(keys[p])
             /\ timeToKeys_' # timeToKeys_
             /\ UNCHANGED keysToTimeAndValue_
        /\ (pc[p] = "erase_stale" /\ Moves(p)) =>
             /\ pc'[p] = "unlock"
             /\ keysToTimeAndValue_' = MapWithout(keys[p])
             /\ keysToTimeAndValue_' # keysToTimeAndValue_
             /\ UNCHANGED timeToKeys_
        /\ MissLeadsToObtainer(p)
        /\ (pc[p] = "obtain" /\ Moves(p)) => pc'[p] \in {"recheck", "done"}
        /\ ( /\ pc[p] \in {"recheck", "insert_time", "cleanup", "return",
                            "catch"}
             /\ Moves(p) ) =>
             pc'[p] \in {"insert_time", "cleanup", "return", "catch", "done"}
        /\ ( /\ pc[p] = "done" /\ op[p] = "get" /\ result[p] # Thrown
             /\ replacing[p] ) =>
             /\ keys[p] \in DOMAIN keysToTimeAndValue_
             /\ keysToTimeAndValue_[keys[p]] =
                    [ts |-> currentTs[p],
                     value |-> Obtained(keys[p], currentTs[p])]
             /\ timeToKeys_ \ TimesWithout(keys[p]) =
                    {<<currentTs[p], keys[p]>>}
      ]_vars

\* C13 witness: a get has replaced the outdated entry of its key, no other
\* caller in between, and has returned, another entry being cached too.
C13_Witness ==
    \E p \in Callers :
        /\ pc[p] = "done" /\ op[p] = "get" /\ result[p] # Thrown
        /\ replacing[p] /\ currentTs[p] > maxTime_
        /\ keysToTimeAndValue_[keys[p]].ts = currentTs[p]
        /\ TimesWithout(keys[p]) # {}

\* C14 (as claimed): with maxElements_ = 0 no assertion fails, every get that
\* returns has called the obtainer and returns the value it obtained, and
\* the cache is empty after it.
C14_ZeroCapacityDegenerates ==
    maxElements_ = 0 =>
        /\ ~aborted
        /\ \A p \in Callers :
               (pc[p] = "done" /\ op[p] = "get" /\ result[p] # Thrown) =>
                   /\ value[p] # NoValue
                   /\ result[p] = Obtained(keys[p], currentTs[p])
                   /\ keysToTimeAndValue_ = [x \in {} |-> NoValue]
                   /\ timeToKeys_ = {}

\* C15: when an eviction pass over (now, maxOperations) ends with part of
\* its budget left, no cached entry has timestamp + maxTime_ < now and
\* neither index holds more than maxElements_ entries; a cleanup(now, n)
\* with n at least the number of entries it started with (those it removed
\* and those it left) ends with such a cache.
C15_EarlyStopLeavesNothing ==
    [][\A p \in Callers :
        /\ ( /\ pc[p] = "cleanup" /\ pc'[p] # "cleanup"
             /\ i[p] < maxOperations[p] ) =>
             /\ NoneOutdated(currentTs[p])
             /\ Cardinality(DOMAIN keysToTimeAndValue_) <= maxElements_
             /\ Cardinality(timeToKeys_) <= maxElements_
             /\ UNCHANGED indexes
        /\ ( /\ pc[p] = "done" /\ op[p] = "cleanup"
             /\ maxOperations[p] >=
                    i[p] + Cardinality(DOMAIN keysToTimeAndValue_) ) =>
             /\ NoneOutdated(currentTs[p])
             /\ Cardinality(DOMAIN keysToTimeAndValue_) <= maxElements_
             /\ Cardinality(timeToKeys_) <= maxElements_
      ]_vars

\* C15 witness: a cleanup has stopped with budget left on a cache that holds
\* an entry older than now, which is not outdated.
C15_Witness ==
    \E p \in Callers :
        /\ pc[p] = "done" /\ op[p] = "cleanup" /\ i[p] < maxOperations[p]
        /\ \E j \in DOMAIN keysToTimeAndValue_ :
               keysToTimeAndValue_[j].ts < currentTs[p]

\* C16: no sassert fails: whenever get is about to remove an outdated entry
\* or erase an entry it found, the entry's (timestamp, key) pair is in
\* timeToKeys_, and whenever an eviction pass runs, the key of every pair of
\* timeToKeys_ is in keysToTimeAndValue_.
C16_NoAssertionFails ==
    /\ ~aborted
    /\ \A p \in Callers :
        /\ (pc[p] \in {"found", "erase"} /\ iterator[p] # End) =>
             /\ keys[p] \in DOMAIN keysToTimeAndValue_
             /\ <<keysToTimeAndValue_[keys[p]].ts, keys[p]>> \in timeToKeys_
        /\ pc[p] = "cleanup" =>
             \A e \in timeToKeys_ : e[2] \in DOMAIN keysToTimeAndValue_

\* C16 witness: of two entries with the same timestamp the eviction pass of
\* a get has removed the one the get had just inserted, and its assertion
\* held.
C16_Witness ==
    \E p \in Callers :
        /\ pc[p] = "cleanup" /\ op[p] = "get" /\ i[p] = 1 /\ ~aborted
        /\ keys[p] \notin DOMAIN keysToTimeAndValue_
        /\ \E e \in timeToKeys_ : e[1] = currentTs[p]

\* C17: in every step an entry that is cached before and after keeps its
\* (timestamp, value) pair and its pair in timeToKeys_; a key enters
\* keysToTimeAndValue_ only in the insertion of a get for that key, with the
\* timestamp and the obtained value of that get; the steps of cleanup and
\* erase add nothing.
C17_NoUpdateInPlace ==
    [][/\ \A k \in DOMAIN keysToTimeAndValue_ \cap DOMAIN keysToTimeAndValue_' :
            keysToTimeAndValue_'[k] = keysToTimeAndValue_[k]
       /\ \A e \in timeToKeys_' \ timeToKeys_ :
            \A f \in timeToKeys_ : f[2] # e[2]
       /\ \A k \in DOMAIN keysToTimeAndValue_' \ DOMAIN keysToTimeAndValue_ :
            \E p \in Callers :
                /\ mutex_ = p /\ op[p] = "get" /\ pc[p] = "recheck"
                /\ keys[p] = k
                /\ keysToTimeAndValue_'[k] =
                       [ts |-> currentTs[p], value |-> Obtained(k, currentTs[p])]
       /\ \A p \in Callers :
            (op[p] \in {"cleanup", "erase"} /\ Moves(p)) => OnlyRemoves
      ]_vars

\* C17 witness: a get has removed the outdated entry of its key and has
\* inserted the key again with its own timestamp.
C17_Witness ==
    \E p \in Callers :
        /\ pc[p] = "insert_time" /\ replacing[p]
        /\ keys[p] \in DOMAIN keysToTimeAndValue_
        /\ keysToTimeAndValue_[keys[p]].ts = currentTs[p]
        /\ currentTs[p] > maxTime_

\* C18: whenever no caller holds the lock, neither index has more than
\* maxElements_ entries; an index has more only while a get holds the lock,
\* between its insertion and the first step of its eviction pass, and then
\* exactly one more.
C18_WithinCapacityWhenUnlocked ==
    /\ mutex_ = NoCaller =>
         /\ Cardinality(DOMAIN keysToTimeAndValue_) <= maxElements_
         /\ Cardinality(timeToKeys_) <= maxElements_
    /\ ( \/ Cardinality(DOMAIN keysToTimeAndValue_) > maxElements_
         \/ Cardinality(timeToKeys_) > maxElements_ ) =>
         /\ Cardinality(DOMAIN keysToTimeAndValue_) = maxElements_ + 1
         /\ Cardinality(timeToKeys_) <= maxElements_ + 1
         /\ \E p \in Callers :
              /\ mutex_ = p /\ op[p] = "get"
              /\ \/ pc[p] \in {"insert_time", "catch"}
                 \/ pc[p] = "cleanup" /\ i[p] = 0

\* C18 witness: a get whose pass evicted an entry has returned; the lock is
\* free and the cache holds exactly maxElements_ entries.
C18_Witness ==
    \E p \in Callers :
        /\ pc[p] = "done" /\ op[p] = "get" /\ i[p] >= 1
        /\ mutex_ = NoCaller /\ maxElements_ >= 1
        /\ Cardinality(timeToKeys_) = maxElements_

C20_ReturnsFreshOrOwnValue ==
    \A p \in Callers :
        (pc[p] = "done" /\ op[p] = "get" /\ result[p] # Thrown) =>
            \/ /\ value[p] = NoValue
               /\ keys[p] \in DOMAIN keysToTimeAndValue_
               /\ result[p] = keysToTimeAndValue_[keys[p]].value
               /\ keysToTimeAndValue_[keys[p]].ts + maxTime_ >= currentTs[p]
            \/ result[p] = Obtained(keys[p], currentTs[p])

====
